---- MODULE Spec2Model ----
(***************************************************************************)
(* torch::deploy (torch/csrc/deploy/deploy.cpp): the LoadBalancer, the     *)
(* InterpreterSession lifecycle and the ReplicatedObj (movable object)     *)
(* protocol of an InterpreterManager.                                      *)
(***************************************************************************)
EXTENDS Integers, Sequences, FiniteSets, TLC

(***************************************************************************)
(* Bounds of the model.                                                    *)
(***************************************************************************)
NSlots == 2          \* n_ / n_interp: interpreters (and balancer slots) of the manager
MaxFrees == 2        \* direct LoadBalancer::free calls explored by SpecBalancer
MaxSessions == 2     \* InterpreterSessions alive at one time
MaxObjects == 2      \* ReplicatedObjs minted by create_movable in one run
MaxRefs == 2         \* ReplicatedObj handles sharing one ReplicatedObjImpl
MaxUnloads == 1      \* ReplicatedObj::unload calls that evict a cache entry, in one run

NThreads == NSlots + 2          \* threads calling the balancer
MaxCalls == NThreads            \* acquire() calls started in one run
MaxLive == MaxObjects - 1       \* ReplicatedObjImpls alive at one time

Slots   == 0 .. NSlots - 1
Threads == 1 .. NThreads
PoolThreads == {1}              \* the threads that call the manager in Spec
SessionIds == 1 .. MaxSessions
ObjIds  == 0 .. MaxObjects - 1
Values  == {"a"}                \* the values handed to create_movable in Spec
NoInterp == -1                  \* on_this_interpreter == nullptr
Unpicklable == "unpicklable"    \* a value InterpreterSessionImpl::pickle throws on
CallValues == {"a", "b", Unpicklable}  \* the values handed to create_movable in SpecCreate
RoundTripValues == {"a", "b"}          \* the values handed to create_movable in SpecRoundTrip
ManySessionIds == 1 .. NSlots + 1      \* the InterpreterSessions of SpecSessions
SeqThreads == {1, 2}                   \* the threads that call the balancer in SpecSeq
MintThreads == {1, 2}                  \* the threads that call create_movable in SpecMint

(***************************************************************************)
(* uint64_t, as four 16-bit limbs, most significant first.  The counters   *)
(* uses_[8 * i] are uint64_t and size_t minusers starts at SIZE_MAX.       *)
(***************************************************************************)
LimbBase == 2 ^ 16
LimbMax  == LimbBase - 1

U64Zero  == <<0, 0, 0, 0>>
U64One   == <<0, 0, 0, 1>>
SIZE_MAX == <<LimbMax, LimbMax, LimbMax, LimbMax>>

\* x + 1 modulo 2^64
U64Inc(x) ==
  IF x[4] < LimbMax THEN [x EXCEPT ![4] = @ + 1]
  ELSE IF x[3] < LimbMax THEN [x EXCEPT ![4] = 0, ![3] = @ + 1]
  ELSE IF x[2] < LimbMax THEN [x EXCEPT ![4] = 0, ![3] = 0, ![2] = @ + 1]
  ELSE IF x[1] < LimbMax THEN [x EXCEPT ![4] = 0, ![3] = 0, ![2] = 0, ![1] = @ + 1]
  ELSE U64Zero

\* x - 1 modulo 2^64
U64Dec(x) ==
  IF x[4] > 0 THEN [x EXCEPT ![4] = @ - 1]
  ELSE IF x[3] > 0 THEN [x EXCEPT ![4] = LimbMax, ![3] = @ - 1]
  ELSE IF x[2] > 0 THEN [x EXCEPT ![4] = LimbMax, ![3] = LimbMax, ![2] = @ - 1]
  ELSE IF x[1] > 0 THEN [x EXCEPT ![4] = LimbMax, ![3] = LimbMax, ![2] = LimbMax, ![1] = @ - 1]
  ELSE SIZE_MAX

\* a < b on uint64_t
U64Less_orEqual(a, b) ==
  \/ a = b
  \/ a[1] < b[1]
  \/ a[1] = b[1] /\ a[2] < b[2]
  \/ a[1] = b[1] /\ a[2] = b[2] /\ a[3] < b[3]
  \/ a[1] = b[1] /\ a[2] = b[2] /\ a[3] = b[3] /\ a[4] < b[4]
U64Less(a, b) ==
  \/ a[1] < b[1]
  \/ a[1] = b[1] /\ a[2] < b[2]
  \/ a[1] = b[1] /\ a[2] = b[2] /\ a[3] < b[3]
  \/ a[1] = b[1] /\ a[2] = b[2] /\ a[3] = b[3] /\ a[4] < b[4]

\* the counter read as a signed 64-bit number is >= 0 (it has not wrapped below zero)
U64NonNegative(x) == x[1] < LimbBase \div 2

\* the counter is a small number, and that number
U64IsSmall(x) == x[1] = 0 /\ x[2] = 0 /\ x[3] = 0
U64Small(x)   == x[4]

VARIABLES
  uses,        \* LoadBalancer::uses_: slot -> uint64_t usage counter
  last,        \* thread -> the thread_local scan cursor of acquire()
  pc,          \* thread -> "idle" | "scan" | "inc": position inside acquire()
  i,           \* thread -> loop index of the scan
  minusers,    \* thread -> smallest counter observed in this scan
  min_idx,     \* thread -> slot where minusers was observed
  returned,    \* index -> how many acquire() calls returned it (history)
  fastRet,     \* acquire() calls that returned through the fast path (history)
  slowRet,     \* acquire() calls that returned through the slow path (history)
  calls,       \* thread -> acquire() calls started by the thread (history)
  nfree,       \* direct LoadBalancer::free calls made so far (history)
  alive,       \* the InterpreterManager and its instances_ have not been destroyed
  sessions,    \* session id -> InterpreterSession (manager_, notify_idx_, self, its interpreter)
  next_object_id, \* InterpreterManager::next_object_id_
  handles,     \* object id -> ReplicatedObj handles sharing the ReplicatedObjImpl (0: none)
  data,        \* object id -> ReplicatedObjImpl::data_, the pickled payload
  cache,       \* interpreter -> object id -> the live value it holds for that id
  desCount,    \* interpreter -> object id -> payload deserializations so far
  status,      \* "ok" | "crashed"
  minted,      \* the ids create_movable returned, in order (history)
  mintedAfterDestroy, \* an id was minted after an earlier object was destroyed (history)
  hist,        \* interpreter -> object id -> resolves since the last unload there (history)
  dtorLog,     \* kinds of session destroyed so far (history)
  tornCache,   \* interpreter -> ids its cache held when it was torn down (history)
  dangling,    \* a ReplicatedObjImpl used manager_ after the manager was destroyed (history)
  dtorEvicted, \* some ~ReplicatedObjImpl evicted its id from every interpreter's cache (history)
  nunload,     \* ReplicatedObj::unload calls that evicted an entry so far (history)
  unloadedAbsent, \* a ReplicatedObj::unload reached an interpreter not holding the id (history)
  err,         \* what the last create_movable / acquire_session call threw, and the session it held
  createdOn,   \* object id -> the interpreter create_movable ran on (history)
  idReg,       \* thread -> the next_object_id_ it read and the payload it pickled, inside create_movable
  env,         \* what the process offers one Interpreter: its symbol table, the image's exports, ...
  interp,      \* one Interpreter: handle_, custom_loader_, pImpl_, its temporary file, its mapping
  ipc,         \* the position of that Interpreter in its constructor / destructor
  trace        \* the calls its constructor and destructor made, in order (history)

balVars == <<uses, last, pc, i, minusers, min_idx, returned, fastRet, slowRet, calls, nfree>>

poolVars == <<alive, sessions, next_object_id, handles, data, cache, desCount, status,
              minted, mintedAfterDestroy, hist, dtorLog, tornCache, dangling, dtorEvicted, nunload, unloadedAbsent>>

\* the history of create_movable calls 
histVars == <<createdOn>>

\* create_movable calls in progress in SpecMint
mintVars == <<idReg>>

\* the construction and teardown of one Interpreter in SpecInterp
interpVars == <<env, interp, ipc, trace>>

otherVars == <<mintVars, interpVars>>

extVars == <<err, histVars, otherVars>>

vars == <<balVars, poolVars, extVars>>

Sum(f, S) ==
  LET RECURSIVE Go(_)
      Go(T) == IF T = {} THEN 0
               ELSE LET x == CHOOSE y \in T : TRUE IN f[x] + Go(T \ {x})
  IN Go(S)

\* LoadBalancer(n): memset(uses_, 0, ...); no acquire() is running
BalancerFresh ==
  /\ uses = [s \in Slots |-> U64Zero]
  /\ pc = [t \in Threads |-> "idle"]
  /\ i = [t \in Threads |-> 0]
  /\ minusers = [t \in Threads |-> SIZE_MAX]
  /\ min_idx = [t \in Threads |-> 0]
  /\ returned = << >>
  /\ fastRet = 0
  /\ slowRet = 0
  /\ calls = [t \in Threads |-> 0]
  /\ nfree = 0

\* thread_local int last = 0;
InitBalancer == BalancerFresh /\ last = [t \in Threads |-> 0]

\* no live value / no payload / no session
NoValue   == [val |-> "none", gen |-> 0]
NoPayload == <<"none", "none">>
NoSession == [live |-> FALSE, interp |-> 0, manager |-> FALSE, notify_idx |-> -1,
              via |-> "none", acquired |-> -1, self |-> NoValue]
NoHist    == [n |-> 0, des |-> 0, vals |-> {}]

\* the manager after its construction, with no session; S: the session slots of the run
InitPoolWith(S) ==
  /\ alive = TRUE
  /\ sessions = [s \in S |-> NoSession]
  /\ next_object_id = 0
  /\ handles = [o \in ObjIds |-> 0]
  /\ data = [o \in ObjIds |-> NoPayload]
  /\ cache = [k \in Slots |-> [o \in ObjIds |-> NoValue]]
  /\ desCount = [k \in Slots |-> [o \in ObjIds |-> 0]]
  /\ status = "ok"
  /\ minted = << >>
  /\ mintedAfterDestroy = FALSE
  /\ hist = [k \in Slots |-> [o \in ObjIds |-> NoHist]]
  /\ dtorLog = [balanced |-> FALSE, pinned |-> FALSE]
  /\ tornCache = [k \in Slots |-> {}]
  /\ dangling = FALSE
  /\ dtorEvicted = FALSE
  /\ nunload = 0
  /\ unloadedAbsent = FALSE

InitPool == InitPoolWith(SessionIds)

\* nothing was called yet
NoError == [kind |-> "none", via |-> "none", slow |-> FALSE]

InitCalls ==
  /\ err = NoError
  /\ createdOn = [o \in ObjIds |-> NoInterp]

NoRead == [id |-> -1, data |-> NoPayload, on |-> NoInterp]

InitMint == idReg = [t \in MintThreads |-> NoRead]

\* interpreter_search_path
SearchPath ==
  << [start_sym |-> "all_so_start", end_sym |-> "all_so_end", custom_loader |-> TRUE],
     [start_sym |-> "cuda_so_start", end_sym |-> "cuda_so_end", custom_loader |-> FALSE],
     [start_sym |-> "cpu_so_start", end_sym |-> "cpu_so_end", custom_loader |-> FALSE] >>

\* the symbols of the search path, and the entry points an image can export
ImageSymbols ==
  {SearchPath[k].start_sym : k \in DOMAIN SearchPath}
     \cup {SearchPath[k].end_sym : k \in DOMAIN SearchPath}
Exports == {"deploy_set_self", "new_interpreter_impl", "deploy_flush_python_libs"}

\* the environments of a construction: which symbols the process resolves,
\* what the image exports, whether mkstemp and dlopen succeed
Envs ==
  [symtab : SUBSET ImageSymbols, exports : SUBSET Exports,
   mkstemp_ok : BOOLEAN, dlopen_ok : BOOLEAN]

\* Interpreter::Interpreter : handle_(nullptr); nothing written, nothing mapped
NewInterp ==
  [handle_ |-> 0, custom_loader_ |-> FALSE, pImpl_ |-> FALSE,
   library |-> "none", mapped |-> FALSE, variant |-> 0]

InitInterp ==
  /\ env \in Envs
  /\ interp = NewInterp
  /\ ipc = "new"
  /\ trace = << >>

\* a process with every symbol and export, where no Interpreter is followed
InterpUnused ==
  /\ env = [symtab |-> ImageSymbols, exports |-> Exports,
            mkstemp_ok |-> TRUE, dlopen_ok |-> TRUE]
  /\ interp = NewInterp
  /\ ipc = "unused"
  /\ trace = << >>

InitExt == InitCalls /\ InitMint /\ InterpUnused

Init == InitBalancer /\ InitPool /\ InitExt

\* The counters are all 0 and each thread's cursor is wherever its earlier
\* acquire() calls left it: last is 0 .. n_ after a call on this balancer.
InitAnyCursor == BalancerFresh /\ last \in [Threads -> 0 .. NSlots] /\ InitPool /\ InitExt

(***************************************************************************)
(* Interpreter: construction from the embedded image, and teardown.        *)
(***************************************************************************)

\* dlsym(nullptr, name) / dlsym(handle_, name): the symbol resolves
Dlsym(table, name) == name \in table

\* the for loop of writeDeployInterpreter from entry k of the search path:
\* lib_start, lib_end, custom_loader and the entry the loop stopped at
RECURSIVE SearchFrom(_, _)
SearchFrom(symtab, k) ==
  IF k > Len(SearchPath)
  THEN [lib_start |-> FALSE, lib_end |-> FALSE, custom_loader |-> FALSE, variant |-> 0]
  ELSE IF Dlsym(symtab, SearchPath[k].start_sym)
  THEN [lib_start |-> TRUE, lib_end |-> Dlsym(symtab, SearchPath[k].end_sym),
        custom_loader |-> SearchPath[k].custom_loader, variant |-> k]
  ELSE SearchFrom(symtab, k + 1)

\* writeDeployInterpreter: TORCH_CHECK(lib_start != nullptr && lib_end != nullptr),
\* then the bytes are written and custom_loader returned
WriteDeployInterpreter(symtab) ==
  LET f == SearchFrom(symtab, 1)
  IN IF f.lib_start /\ f.lib_end
     THEN [ok |-> TRUE, custom_loader |-> f.custom_loader, variant |-> f.variant]
     ELSE [ok |-> FALSE, custom_loader |-> FALSE, variant |-> 0]

\* the handle dlopen returns for the image
ImageHandle == 1

Event(name, arg) == <<name, arg>>

\* everything but the Interpreter that SpecInterp follows
restVars == <<balVars, poolVars, err, histVars, mintVars>>

\* mkstemp; TORCH_INTERNAL_ASSERT(fd != -1)
Mkstemp ==
  /\ ipc = "new"
  /\ IF env.mkstemp_ok
     THEN /\ interp' = [interp EXCEPT !.library = "created"]
          /\ ipc' = "tmp"
     ELSE /\ ipc' = "failed"
          /\ UNCHANGED interp
  /\ UNCHANGED <<env, trace, restVars>>

\* custom_loader_ = writeDeployInterpreter(dst); fclose(dst)
WriteImage ==
  /\ ipc = "tmp"
  /\ LET r == WriteDeployInterpreter(env.symtab)
     IN IF r.ok
        THEN /\ interp' = [interp EXCEPT !.custom_loader_ = r.custom_loader,
                                         !.variant = r.variant, !.library = "written"]
             /\ trace' = Append(trace, Event("fwrite", r.variant))
             /\ ipc' = "written"
        ELSE /\ ipc' = "failed"
             /\ UNCHANGED <<interp, trace>>
  /\ UNCHANGED <<env, restVars>>

\* handle_ = dlopen(library_name, flags); if (!handle_) throw
Dlopen ==
  /\ ipc = "written"
  /\ IF env.dlopen_ok
     THEN /\ interp' = [interp EXCEPT !.handle_ = ImageHandle, !.mapped = TRUE]
          /\ trace' = Append(trace, Event("dlopen", IF interp.custom_loader_
                                                     THEN "RTLD_DEEPBIND" ELSE "RTLD_LOCAL"))
          /\ ipc' = "loaded"
     ELSE /\ ipc' = "failed"
          /\ UNCHANGED <<interp, trace>>
  /\ UNCHANGED <<env, restVars>>

\* unlink(library_name_.c_str())
Unlink ==
  /\ ipc = "loaded"
  /\ interp' = [interp EXCEPT !.library = "unlinked"]
  /\ trace' = Append(trace, Event("unlink", "library"))
  /\ ipc' = "unlinked"
  /\ UNCHANGED <<env, restVars>>

\* if (custom_loader_) { dlsym(handle_, "deploy_set_self"); AT_ASSERT; call it with handle_ }
BindSelf_skipped ==
  /\ ipc = "unlinked"
  /\ ipc' = "bound"
  /\ UNCHANGED <<env, interp, trace, restVars>>
BindSelf ==
  /\ ipc = "unlinked"
  /\ IF ~interp.custom_loader_
     THEN /\ ipc' = "bound"
          /\ UNCHANGED trace
     ELSE IF Dlsym(env.exports, "deploy_set_self")
     THEN /\ trace' = Append(trace, Event("deploy_set_self", interp.handle_))
          /\ ipc' = "bound"
     ELSE /\ ipc' = "failed"
          /\ UNCHANGED trace
  /\ UNCHANGED <<env, interp, restVars>>

\* dlsym(handle_, "new_interpreter_impl"); AT_ASSERT; pImpl_ = the object it returns
Factory ==
  /\ ipc = "bound"
  /\ IF Dlsym(env.exports, "new_interpreter_impl")
     THEN /\ interp' = [interp EXCEPT !.pImpl_ = TRUE]
          /\ trace' = Append(trace, Event("new_interpreter_impl", "pImpl"))
          /\ ipc' = "constructed"
     ELSE /\ ipc' = "failed"
          /\ UNCHANGED <<interp, trace>>
  /\ UNCHANGED <<env, restVars>>

\* the Interpreter is moved from (instances_ grows): it keeps no handle and no pImpl_
MoveFrom ==
  /\ ipc = "constructed" /\ interp.handle_ # 0
  /\ interp' = [interp EXCEPT !.handle_ = 0, !.pImpl_ = FALSE, !.mapped = FALSE]
  /\ UNCHANGED <<env, ipc, trace, restVars>>

\* ~Interpreter: if (handle_) pImpl_.reset(); and nothing when handle_ is null
DtorReset_closeFirst ==
  /\ ipc = "constructed"
  /\ interp' = [interp EXCEPT !.mapped = FALSE]
  /\ trace' = Append(trace, Event("dlclose", interp.handle_))
  /\ ipc' = "destroyed"
  /\ UNCHANGED <<env, restVars>>
DtorReset ==
  /\ ipc = "constructed"
  /\ IF interp.handle_ # 0
     THEN /\ interp' = [interp EXCEPT !.pImpl_ = FALSE]
          /\ trace' = Append(trace, Event("pImpl_.reset", "pImpl"))
          /\ ipc' = "reset"
     ELSE /\ ipc' = "destroyed"
          /\ UNCHANGED <<interp, trace>>
  /\ UNCHANGED <<env, restVars>>

\* if (custom_loader_) { dlsym(handle_, "deploy_flush_python_libs") and call it }.
\* The pointer is not checked: when the image does not export the hook the
\* call goes through a null pointer, and the process crashes or goes on.
DtorFlush ==
  /\ ipc = "reset"
  /\ IF ~interp.custom_loader_
     THEN /\ ipc' = "flushed"
          /\ UNCHANGED trace
     ELSE IF Dlsym(env.exports, "deploy_flush_python_libs")
     THEN /\ trace' = Append(trace, Event("deploy_flush_python_libs", "hook"))
          /\ ipc' = "flushed"
     ELSE /\ ipc' \in {"crashed", "flushed"}
          /\ UNCHANGED trace
  /\ UNCHANGED <<env, interp, restVars>>

\* dlclose(handle_)
DtorClose ==
  /\ ipc = "flushed"
  /\ interp' = [interp EXCEPT !.mapped = FALSE]
  /\ trace' = Append(trace, Event("dlclose", interp.handle_))
  /\ ipc' = "destroyed"
  /\ UNCHANGED <<env, restVars>>

NextInterp ==
  \/ Mkstemp
  \/ WriteImage
  \/ Dlopen
  \/ Unlink
  \/ BindSelf
  \/ Factory
  \/ MoveFrom
  \/ DtorReset
  \/ DtorFlush
  \/ DtorClose

\* a manager at rest, and one Interpreter about to be constructed
InitConstruct == InitBalancer /\ InitPool /\ InitCalls /\ InitMint /\ InitInterp

SpecInterp == InitConstruct /\ [][NextInterp]_vars

(***************************************************************************)
(* LoadBalancer::acquire.                                                  *)
(***************************************************************************)

\* if (last >= n_) last = 0;
WrapCursor(c) == IF c >= NSlots THEN 0 ELSE c

\* __atomic_compare_exchange_n(&uses_[8 * last], &prev, 1ULL, ...) with prev = 0:
\* whether the exchange takes place, given the counter's current value
CasAcquired_always(cur) == TRUE
CasAcquired(cur) == cur = U64Zero

\* __atomic_fetch_add(&uses_[8 * min_idx], 1ULL, ...)
FetchAdd_lost(u, s) == u
FetchAdd(u, s) == [u EXCEPT ![s] = U64Inc(@)]

\* __atomic_fetch_sub(&uses_[8 * where], 1ULL, ...)
FetchSub(u, s) == [u EXCEPT ![s] = U64Dec(@)]

\* One iteration of the scan loop on counters u, with cursor c0 and the
\* running minimum (mu at slot mi).
ProbeStep(u, c0, mu, mi) ==
  LET c    == WrapCursor(c0)
      prev == u[c]
  IN IF CasAcquired(prev)
     THEN [acquired |-> TRUE, uses |-> [u EXCEPT ![c] = U64One], last |-> c,
           minusers |-> mu, min_idx |-> mi]
     ELSE IF U64Less(prev, mu)
     THEN [acquired |-> FALSE, uses |-> u, last |-> c + 1, minusers |-> prev, min_idx |-> c]
     ELSE [acquired |-> FALSE, uses |-> u, last |-> c + 1, minusers |-> mu, min_idx |-> mi]

\* a return of acquire(): the locals die, the thread_local cursor stays
Return(t, idx, fast) ==
  /\ pc' = [pc EXCEPT ![t] = "idle"]
  /\ i' = [i EXCEPT ![t] = 0]
  /\ minusers' = [minusers EXCEPT ![t] = SIZE_MAX]
  /\ min_idx' = [min_idx EXCEPT ![t] = 0]
  /\ returned' = IF idx \in DOMAIN returned
                 THEN [returned EXCEPT ![idx] = @ + 1]
                 ELSE [x \in DOMAIN returned \cup {idx} |->
                         IF x = idx THEN 1 ELSE returned[x]]
  /\ fastRet' = IF fast THEN fastRet + 1 ELSE fastRet
  /\ slowRet' = IF fast THEN slowRet ELSE slowRet + 1

AllIdle == \A t \in Threads : pc[t] = "idle"

\* One iteration of the scan loop by thread t (one atomic access to uses_);
\* the first iteration is also the entry of the call.
Probe(t) ==
  /\ \/ pc[t] = "scan"
     \/ pc[t] = "idle" /\ Sum(calls, Threads) < MaxCalls
  /\ calls' = IF pc[t] = "idle" THEN [calls EXCEPT ![t] = @ + 1] ELSE calls
  /\ LET r == ProbeStep(uses, last[t], minusers[t], min_idx[t])
     IN /\ uses' = r.uses
        /\ last' = [last EXCEPT ![t] = r.last]
        /\ IF r.acquired
           THEN Return(t, r.last, TRUE)
           ELSE /\ minusers' = [minusers EXCEPT ![t] = r.minusers]
                /\ min_idx' = [min_idx EXCEPT ![t] = r.min_idx]
                /\ i' = [i EXCEPT ![t] = @ + 1]
                /\ pc' = [pc EXCEPT ![t] = IF i[t] + 1 < NSlots THEN "scan" ELSE "inc"]
                /\ UNCHANGED <<returned, fastRet, slowRet>>
  /\ UNCHANGED <<extVars, nfree, poolVars>>

\* The slow path: no slot was idle during the scan.
Increment_retry(t) ==
  /\ pc[t] = "inc"
  /\ pc' = [pc EXCEPT ![t] = "scan"]
  /\ i' = [i EXCEPT ![t] = 0]
  /\ UNCHANGED <<extVars, uses, last, minusers, min_idx, returned, fastRet, slowRet, calls,
                 nfree, poolVars>>
Increment(t) ==
  /\ pc[t] = "inc"
  /\ uses' = FetchAdd(uses, min_idx[t])
  /\ Return(t, min_idx[t], FALSE)
  /\ UNCHANGED <<extVars, last, calls, nfree, poolVars>>

(***************************************************************************)
(* LoadBalancer::free(where), called directly with any slot index.         *)
(***************************************************************************)
Free(t, where) ==
  /\ pc[t] = "idle"
  /\ nfree < MaxFrees
  /\ uses' = FetchSub(uses, where)
  /\ nfree' = nfree + 1
  /\ UNCHANGED <<extVars, last, pc, i, minusers, min_idx, returned, fastRet, slowRet, calls, poolVars>>

DoProbe == \E t \in Threads : Probe(t)
DoIncrement == \E t \in Threads : Increment(t)
DoFree == \E t \in Threads, where \in Slots : Free(t, where)

\* acquire() and free(index) calls from any thread, in any interleaving
NextBalancer == DoProbe \/ DoIncrement \/ DoFree

SpecBalancer == Init /\ [][NextBalancer]_vars

\* acquire() calls only, from any thread, in any interleaving, from any cursors
NextAcquire == DoProbe \/ DoIncrement

SpecAcquire == InitAnyCursor /\ [][NextAcquire]_vars

(***************************************************************************)
(* Claims about the LoadBalancer: C1 and C3 are checked under SpecAcquire, *)
(* C2 under SpecBalancer.                                                  *)
(***************************************************************************)

\* C1: from all counters 0, as long as no free() was called and at most
\* NSlots acquire() calls were started (by one thread or by several, in any
\* interleaving), the indices returned are pairwise distinct and each is a
\* slot index 0 <= idx < NSlots.
C1_DistinctIndices ==
  (nfree = 0 /\ Sum(calls, Threads) <= NSlots) =>
     /\ DOMAIN returned \subseteq Slots
     /\ \A idx \in DOMAIN returned : returned[idx] = 1

\* NSlots calls, issued by more than one thread, have all returned
C1_Witness ==
  /\ nfree = 0 /\ AllIdle
  /\ Sum(calls, Threads) = NSlots
  /\ Cardinality(DOMAIN returned) = NSlots
  /\ calls[1] >= 1 /\ calls[2] >= 1

\* C2: every slot's usage counter stays >= 0 (the unsigned counter never
\* wraps below zero), for all sequences of acquire() and free(index) calls.
C2_CountersNonNegative == \A s \in Slots : U64NonNegative(uses[s])

\* C3: when each of the NThreads >= NSlots threads has called acquire()
\* once, with no free(), exactly NSlots calls returned through the fast path,
\* NThreads - NSlots through the slow path, and the counters sum to NThreads.
C3_FastSlowSplit ==
  (nfree = 0 /\ AllIdle /\ \A t \in Threads : calls[t] = 1) =>
     /\ fastRet = NSlots
     /\ slowRet = NThreads - NSlots
     /\ \A s \in Slots : U64IsSmall(uses[s])
     /\ Sum([s \in Slots |-> U64Small(uses[s])], Slots) = NThreads

\* every thread has called once and returned; some slot took a slow-path call
C3_Witness ==
  /\ nfree = 0 /\ AllIdle /\ \A t \in Threads : calls[t] = 1
  /\ slowRet >= 1
  /\ \E s \in Slots : uses[s] = U64Inc(U64One)

(***************************************************************************)
(* The InterpreterManager: sessions, movable objects, teardown.  Each      *)
(* handler below runs as one step.                                         *)
(***************************************************************************)

\* LoadBalancer::acquire run to its return with no other balancer call in
\* between, from iteration k of the scan.
RECURSIVE ScanFrom(_, _, _, _, _)
ScanFrom(u, c0, k, mu, mi) ==
  IF k >= NSlots
  THEN [uses |-> FetchAdd(u, mi), last |-> c0, idx |-> mi, fast |-> FALSE]
  ELSE LET r == ProbeStep(u, c0, mu, mi)
       IN IF r.acquired
          THEN [uses |-> r.uses, last |-> r.last, idx |-> r.last, fast |-> TRUE]
          ELSE ScanFrom(r.uses, r.last, k + 1, r.minusers, r.min_idx)

Acquire(u, c0) == ScanFrom(u, c0, 0, SIZE_MAX, 0)

(***************************************************************************)
(* SpecSeq: acquire() and free(index) calls with no two of them            *)
(* overlapping, from any cursors.                                          *)
(***************************************************************************)

\* LoadBalancer::acquire by thread t, from its entry to its return, while no
\* other balancer call runs
SeqAcquire(t) ==
  /\ AllIdle /\ Sum(calls, Threads) < MaxCalls
  /\ calls' = [calls EXCEPT ![t] = @ + 1]
  /\ LET a == Acquire(uses, last[t])
     IN /\ uses' = a.uses
        /\ last' = [last EXCEPT ![t] = a.last]
        /\ Return(t, a.idx, a.fast)
  /\ UNCHANGED <<extVars, nfree, poolVars>>

DoSeqAcquire == \E t \in SeqThreads : SeqAcquire(t)
DoSeqFree == \E t \in SeqThreads, where \in Slots : Free(t, where)

NextSeq == DoSeqAcquire \/ DoSeqFree

SpecSeq == InitAnyCursor /\ [][NextSeq]_vars

\* Interpreter::acquire_session(): a session pinned to interpreter k
InterpSession(k) ==
  [live |-> TRUE, interp |-> k, manager |-> TRUE, notify_idx |-> -1,
   via |-> "pinned", acquired |-> -1, self |-> NoValue]

\* InterpreterManager::acquire_one(): a session on the interpreter the balancer chose
BalancedSession(where) ==
  [live |-> TRUE, interp |-> where, manager |-> TRUE, notify_idx |-> where,
   via |-> "balanced", acquired |-> where, self |-> NoValue]

\* Interpreter::acquire_session() on an Interpreter that belongs to no manager
StandaloneSession ==
  [live |-> TRUE, interp |-> NoInterp, manager |-> FALSE, notify_idx |-> -1,
   via |-> "standalone", acquired |-> -1, self |-> NoValue]

\* ~InterpreterSession: the slots it hands to LoadBalancer::free
SessionFrees_interp(s) == IF s.manager THEN {s.interp} ELSE {}
SessionFrees(s) == IF s.manager /\ s.notify_idx >= 0 THEN {s.notify_idx} ELSE {}

\* the counters after ~InterpreterSession of s
SessionDtor_leak(u, s) == u
SessionDtor(u, s) ==
  [x \in Slots |-> IF x \in SessionFrees(s) THEN FetchSub(u, x)[x] ELSE u[x]]

\* the counters after the sessions of Interpreter::acquire_session() on
\* each interpreter of T have been destroyed
PinnedDtors_frees(u, T) == [x \in Slots |-> IF x \in T THEN FetchSub(u, x)[x] ELSE u[x]]
RECURSIVE PinnedDtors(_, _)
PinnedDtors(u, T) ==
  IF T = {} THEN u
  ELSE LET k == CHOOSE x \in T : TRUE
       IN PinnedDtors(SessionDtor(u, InterpSession(k)), T \ {k})

\* InterpreterSessionImpl::pickle / unpickle
PickleThrows(v) == v = Unpicklable
Pickle(v)   == <<"pickle", v>>
Unpickle(p) == p[2]

\* InterpreterSessionImpl::unpickle_or_get(id, data) on the cache c of one
\* interpreter that has deserialized this id n times so far
UnpickleOrGet(c, id, payload, n) ==
  IF c[id] # NoValue
  THEN [cache |-> c, value |-> c[id], des |-> FALSE]
  ELSE LET v == [val |-> Unpickle(payload), gen |-> n + 1]
       IN [cache |-> [c EXCEPT ![id] = v], value |-> v, des |-> TRUE]

\* InterpreterSessionImpl::unload(id)
ImplUnload(c, id) == [c EXCEPT ![id] = NoValue]

\* InterpreterSession::from_movable
FromMovable_fresh(c, id, payload, n) ==
  LET v == [val |-> Unpickle(payload), gen |-> n + 1]
  IN [cache |-> [c EXCEPT ![id] = v], value |-> v, des |-> TRUE]
FromMovable_nodata(c, id, payload, n) == UnpickleOrGet(c, id, NoPayload, n)
FromMovable(c, id, payload, n) == UnpickleOrGet(c, id, payload, n)

\* ReplicatedObjImpl::unload: the interpreters it evicts the id on
UnloadTargets_first(target) == IF target = NoInterp THEN {0} ELSE {target}
UnloadTargets_all(target) == Slots
UnloadTargets(target) == IF target = NoInterp THEN Slots ELSE {target}

\* ~ReplicatedObjImpl: unload(nullptr)
DtorTargets_none == {}
DtorTargets == UnloadTargets(NoInterp)

\* manager_->next_object_id_++ : the counter after the call
NextId_stuck(n) == n
NextId(n) == n + 1

FreeSessionIds == {s \in DOMAIN sessions : ~sessions[s].live}
NewSessionId == CHOOSE s \in FreeSessionIds : \A r \in FreeSessionIds : s <= r
LiveSessions == {s \in DOMAIN sessions : sessions[s].live}
Min(a, b) == IF a < b THEN a ELSE b

Running == alive /\ status = "ok"

BalGhosts == <<pc, i, minusers, min_idx, returned, fastRet, slowRet, calls, nfree>>

\* the resolve of object id on interpreter k: result r of from_movable
Resolved(k, id, r) ==
  /\ cache' = [cache EXCEPT ![k] = r.cache]
  /\ desCount' = [desCount EXCEPT ![k][id] = IF r.des THEN @ + 1 ELSE @]
  /\ hist' = [hist EXCEPT ![k][id] =
                [n |-> Min(@.n + 1, 2), des |-> @.des + (IF r.des THEN 1 ELSE 0),
                 vals |-> @.vals \cup {r.value}]]

\* InterpreterManager::acquire_session() / acquire_one(), by thread t
AcquireOne(t) ==
  /\ Running /\ FreeSessionIds # {}
  /\ LET a == Acquire(uses, last[t])
     IN /\ uses' = a.uses
        /\ last' = [last EXCEPT ![t] = a.last]
        /\ sessions' = [sessions EXCEPT ![NewSessionId] = BalancedSession(a.idx)]
  /\ UNCHANGED <<extVars, BalGhosts, alive, next_object_id, handles, data, cache, desCount, status,
                 minted, mintedAfterDestroy, hist, dtorLog, tornCache, dangling, dtorEvicted, nunload, unloadedAbsent>>

\* Interpreter::acquire_session() on instance k of the manager
AcquirePinned(k) ==
  /\ Running /\ FreeSessionIds # {}
  /\ sessions' = [sessions EXCEPT ![NewSessionId] = InterpSession(k)]
  /\ UNCHANGED <<extVars, balVars, alive, next_object_id, handles, data, cache, desCount, status,
                 minted, mintedAfterDestroy, hist, dtorLog, tornCache, dangling, dtorEvicted, nunload, unloadedAbsent>>

\* Interpreter::acquire_session() on an Interpreter constructed with no manager
AcquireStandalone ==
  /\ Running /\ FreeSessionIds # {}
  /\ \A s \in LiveSessions : sessions[s].manager
  /\ sessions' = [sessions EXCEPT ![NewSessionId] = StandaloneSession]
  /\ UNCHANGED <<extVars, balVars, alive, next_object_id, handles, data, cache, desCount, status,
                 minted, mintedAfterDestroy, hist, dtorLog, tornCache, dangling, dtorEvicted, nunload, unloadedAbsent>>

\* ~InterpreterSession
DestroySession(s) ==
  /\ status = "ok" /\ sessions[s].live
  /\ uses' = SessionDtor(uses, sessions[s])
  /\ sessions' = [sessions EXCEPT ![s] = NoSession]
  /\ dtorLog' = IF sessions[s].via = "balanced"
                THEN [dtorLog EXCEPT !.balanced = TRUE]
                ELSE [dtorLog EXCEPT !.pinned = TRUE]
  /\ UNCHANGED <<extVars, last, BalGhosts, alive, next_object_id, handles, data, cache, desCount,
                 status, minted, mintedAfterDestroy, hist, tornCache, dangling, dtorEvicted, nunload, unloadedAbsent>>

\* InterpreterSession::create_movable(obj) with manager_ set or null (m) and
\* next_object_id_ = n: what it throws, the counter after it, the id and payload
CreateMovableResult_drawFirst(m, n, v) ==
  IF ~m THEN [err |-> "precondition", next |-> NextId(n), id |-> n, data |-> NoPayload]
  ELSE IF PickleThrows(v)
  THEN [err |-> "pickle", next |-> NextId(n), id |-> n, data |-> NoPayload]
  ELSE [err |-> "none", next |-> NextId(n), id |-> n, data |-> Pickle(v)]
CreateMovableResult(m, n, v) ==
  IF ~m THEN [err |-> "precondition", next |-> n, id |-> n, data |-> NoPayload]
  ELSE IF PickleThrows(v) THEN [err |-> "pickle", next |-> n, id |-> n, data |-> NoPayload]
  ELSE [err |-> "none", next |-> NextId(n), id |-> n, data |-> Pickle(v)]

\* InterpreterSession::create_movable(obj) on session s
CreateMovable(s, v) ==
  /\ Running /\ sessions[s].live
  /\ next_object_id \in ObjIds
  /\ LET r == CreateMovableResult(sessions[s].manager, next_object_id, v)
     IN /\ r.err = "none" =>
              /\ Len(minted) < MaxObjects
              /\ Cardinality({o \in ObjIds : handles[o] > 0}) < MaxLive
        /\ err' = [kind |-> r.err, via |-> "none", slow |-> FALSE]
        /\ next_object_id' = r.next
        /\ IF r.err = "none"
           THEN /\ handles' = [handles EXCEPT ![r.id] = 1]
                /\ data' = [data EXCEPT ![r.id] = r.data]
                /\ minted' = Append(minted, r.id)
                /\ mintedAfterDestroy' =
                     (mintedAfterDestroy \/ \E m \in 1 .. Len(minted) : handles[minted[m]] = 0)
           ELSE UNCHANGED <<handles, data, minted, mintedAfterDestroy>>
  /\ UNCHANGED <<otherVars, balVars, alive, sessions, cache, desCount, status, hist, dtorLog,
                 tornCache, dangling, dtorEvicted, nunload, unloadedAbsent>>

\* ReplicatedObj::acquire_session(on_this_interpreter) by thread t
ObjAcquireSession(t, id, target) ==
  /\ Running /\ FreeSessionIds # {} /\ handles[id] > 0
  /\ LET a == Acquire(uses, last[t])
         I == IF target # NoInterp THEN InterpSession(target) ELSE BalancedSession(a.idx)
         r == FromMovable(cache[I.interp], id, data[id], desCount[I.interp][id])
     IN /\ uses' = IF target # NoInterp THEN uses ELSE a.uses
        /\ last' = IF target # NoInterp THEN last ELSE [last EXCEPT ![t] = a.last]
        /\ sessions' = [sessions EXCEPT ![NewSessionId] = [I EXCEPT !.self = r.value]]
        /\ Resolved(I.interp, id, r)
        /\ err' = NoError
  /\ UNCHANGED <<otherVars, BalGhosts, alive, next_object_id, handles, data, status, minted,
                 mintedAfterDestroy, dtorLog, tornCache, dangling, dtorEvicted, nunload, unloadedAbsent>>

\* ReplicatedObj::acquire_session(on_this_interpreter) by thread t when the
\* deserialization inside from_movable throws: the session I is destroyed by
\* the unwinding and TORCH_DEPLOY_SAFE_CATCH_RETHROW throws to the caller.
ObjAcquireSessionThrows(t, id, target) ==
  /\ Running /\ handles[id] > 0
  /\ LET a == Acquire(uses, last[t])
         I == IF target # NoInterp THEN InterpSession(target) ELSE BalancedSession(a.idx)
     IN /\ cache[I.interp][id] = NoValue
        /\ uses' = SessionDtor(IF target # NoInterp THEN uses ELSE a.uses, I)
        /\ last' = IF target # NoInterp THEN last ELSE [last EXCEPT ![t] = a.last]
        /\ err' = [kind |-> "unpickle", via |-> I.via,
                   slow |-> (target = NoInterp /\ ~a.fast)]
  /\ UNCHANGED <<BalGhosts, poolVars, histVars, otherVars>>

\* InterpreterSession::from_movable(obj) on the live session s
SessionFromMovable(s, id) ==
  /\ Running /\ sessions[s].live /\ handles[id] > 0
  /\ LET k == sessions[s].interp
         r == FromMovable(cache[k], id, data[id], desCount[k][id])
     IN Resolved(k, id, r)
  /\ UNCHANGED <<extVars, balVars, alive, sessions, next_object_id, handles, data, status, minted,
                 mintedAfterDestroy, dtorLog, tornCache, dangling, dtorEvicted, nunload, unloadedAbsent>>

\* the caches after unload(id) on the interpreters of T
UnloadOn(cch, id, T) ==
  [k \in Slots |-> IF k \in T THEN ImplUnload(cch[k], id) ELSE cch[k]]

HistAfterUnload(id, T) ==
  [k \in Slots |-> IF k \in T THEN [hist[k] EXCEPT ![id] = NoHist] ELSE hist[k]]

\* ReplicatedObj::unload(on_this_interpreter) -> ReplicatedObjImpl::unload
Unload(id, target) ==
  /\ Running /\ handles[id] > 0
  /\ LET T == UnloadTargets(target)
         evicts == \E k \in T : cache[k][id] # NoValue
     IN /\ evicts => nunload < MaxUnloads
        /\ nunload' = IF evicts THEN nunload + 1 ELSE nunload
        /\ unloadedAbsent' = (unloadedAbsent \/ \E k \in T : cache[k][id] = NoValue)
        /\ cache' = UnloadOn(cache, id, T)
        /\ hist' = HistAfterUnload(id, T)
        /\ uses' = PinnedDtors(uses, T)
  /\ UNCHANGED <<extVars, last, BalGhosts, alive, sessions, next_object_id, handles, data, desCount,
                 status, minted, mintedAfterDestroy, dtorLog, tornCache, dangling, dtorEvicted>>

\* a copy of a ReplicatedObj handle
CopyHandle(id) ==
  /\ status = "ok" /\ handles[id] > 0 /\ handles[id] < MaxRefs
  /\ handles' = [handles EXCEPT ![id] = @ + 1]
  /\ UNCHANGED <<extVars, balVars, alive, sessions, next_object_id, data, cache, desCount, status,
                 minted, mintedAfterDestroy, hist, dtorLog, tornCache, dangling, dtorEvicted, nunload, unloadedAbsent>>

\* ~ReplicatedObj; the last one runs ~ReplicatedObjImpl.  After the manager
\* was destroyed manager_ dangles and all_instances() is undefined behaviour:
\* the process crashes or goes on.
DropHandle(id) ==
  /\ status = "ok" /\ handles[id] > 0
  /\ handles' = [handles EXCEPT ![id] = @ - 1]
  /\ IF handles[id] > 1
     THEN UNCHANGED <<uses, data, cache, desCount, hist, status, dangling, dtorEvicted>>
     ELSE /\ data' = [data EXCEPT ![id] = NoPayload]
          /\ desCount' = [k \in Slots |-> [desCount[k] EXCEPT ![id] = 0]]
          /\ IF alive
             THEN /\ cache' = UnloadOn(cache, id, DtorTargets)
                  /\ hist' = HistAfterUnload(id, DtorTargets)
                  /\ uses' = PinnedDtors(uses, DtorTargets)
                  /\ dtorEvicted' =
                       (dtorEvicted \/ \A k \in Slots : cache[k][id] # NoValue)
                  /\ UNCHANGED <<status, dangling>>
             ELSE /\ dangling' = TRUE
                  /\ status' \in {"ok", "crashed"}
                  /\ UNCHANGED <<uses, cache, hist, dtorEvicted>>
  /\ UNCHANGED <<extVars, last, BalGhosts, alive, sessions, next_object_id, minted,
                 mintedAfterDestroy, dtorLog, tornCache, nunload, unloadedAbsent>>

\* ~InterpreterManager: every Interpreter of instances_ is destroyed
\* (~Interpreter: pImpl_.reset(), then dlclose), with what its cache holds.
DestroyPool ==
  /\ Running /\ LiveSessions = {}
  /\ alive' = FALSE
  /\ tornCache' = [k \in Slots |-> {o \in ObjIds : cache[k][o] # NoValue}]
  /\ cache' = [k \in Slots |-> [o \in ObjIds |-> NoValue]]
  /\ hist' = [k \in Slots |-> [o \in ObjIds |-> NoHist]]
  /\ UNCHANGED <<extVars, balVars, sessions, next_object_id, handles, data, desCount, status,
                 minted, mintedAfterDestroy, dtorLog, dangling, dtorEvicted, nunload, unloadedAbsent>>

DoAcquireOne == \E t \in PoolThreads : AcquireOne(t)
DoAcquirePinned == \E k \in Slots : AcquirePinned(k)
DoDestroySession == \E s \in DOMAIN sessions : DestroySession(s)
DoCreateMovable ==
  \E s \in DOMAIN sessions, v \in Values : CreateMovable(s, v) /\ UNCHANGED histVars
DoObjAcquireSession ==
  \E t \in PoolThreads, id \in ObjIds, target \in Slots \cup {NoInterp} :
     ObjAcquireSession(t, id, target) /\ UNCHANGED histVars
DoSessionFromMovable == \E s \in DOMAIN sessions, id \in ObjIds : SessionFromMovable(s, id)
DoUnload == \E id \in ObjIds, target \in Slots \cup {NoInterp} : Unload(id, target)
DoCopyHandle == \E id \in ObjIds : CopyHandle(id)
DoDropHandle == \E id \in ObjIds : DropHandle(id)

Next ==
  \/ DoAcquireOne
  \/ DoAcquirePinned
  \/ DoDestroySession
  \/ DoCreateMovable
  \/ DoObjAcquireSession
  \/ DoSessionFromMovable
  \/ DoUnload
  \/ DoCopyHandle
  \/ DoDropHandle
  \/ DestroyPool

Spec == Init /\ [][Next]_vars

(***************************************************************************)
(* The calls of one thread on a manager with their failure paths:          *)
(* SpecCreate has values pickle throws on and sessions of an Interpreter   *)
(* outside the manager; SpecRoundTrip has different values; SpecSessions   *)
(* has more sessions than interpreters and deserializations that throw.    *)
(***************************************************************************)

\* more sessions than interpreters
InitSessions == InitBalancer /\ InitPoolWith(ManySessionIds) /\ InitExt

\* create_movable of a value of V on any session, recording where it ran
CreateMovableOf(V) ==
  \E s \in DOMAIN sessions, v \in V :
     /\ CreateMovable(s, v)
     /\ createdOn' = IF err'.kind = "none"
                      THEN [createdOn EXCEPT ![next_object_id] = sessions[s].interp]
                      ELSE createdOn

CallCreateMovable == CreateMovableOf(CallValues)
RoundTripCreateMovable == CreateMovableOf(RoundTripValues)

DoObjAcquireSessionThrows ==
  \E t \in PoolThreads, id \in ObjIds, target \in Slots \cup {NoInterp} :
     ObjAcquireSessionThrows(t, id, target)

\* InterpreterSession::create_movable by thread t on session s, up to the
\* read of manager_->next_object_id_ (a plain size_t: ++ is a read and a write).
\* The calls in progress are on sessions of different interpreters.
MintRead(t, s, v) ==
  /\ Running /\ sessions[s].live /\ sessions[s].manager /\ ~PickleThrows(v)
  /\ idReg[t] = NoRead
  /\ \A u \in MintThreads : idReg[u].on # sessions[s].interp
  /\ next_object_id \in ObjIds
  /\ Len(minted) + Cardinality({u \in MintThreads : idReg[u] # NoRead}) < MaxObjects
  /\ idReg' = [idReg EXCEPT ![t] = [id |-> next_object_id, data |-> Pickle(v),
                                     on |-> sessions[s].interp]]
  /\ UNCHANGED <<balVars, poolVars, err, histVars, interpVars>>

\* the rest of create_movable by thread t: the write of next_object_id_ and
\* the ReplicatedObjImpl made with the id that was read
MintWrite(t) ==
  /\ idReg[t] # NoRead
  /\ next_object_id' = NextId(idReg[t].id)
  /\ handles' = [handles EXCEPT ![idReg[t].id] = 1]
  /\ data' = [data EXCEPT ![idReg[t].id] = idReg[t].data]
  /\ minted' = Append(minted, idReg[t].id)
  /\ idReg' = [idReg EXCEPT ![t] = NoRead]
  /\ err' = NoError
  /\ UNCHANGED <<balVars, alive, sessions, cache, desCount, status, mintedAfterDestroy, hist,
                 dtorLog, tornCache, dangling, dtorEvicted, nunload, unloadedAbsent, histVars,
                 interpVars>>

DoMintRead == \E t \in MintThreads, s \in DOMAIN sessions, v \in Values : MintRead(t, s, v)
DoMintWrite == \E t \in MintThreads : MintWrite(t)

\* create_movable calls of two threads on sessions of one manager, interleaved
NextMint ==
  \/ DoAcquireOne
  \/ DoAcquirePinned
  \/ DoDestroySession
  \/ DoMintRead
  \/ DoMintWrite

SpecMint == Init /\ [][NextMint]_vars

NextCreate ==
  \/ DoAcquireOne
  \/ DoAcquirePinned
  \/ AcquireStandalone
  \/ DoDestroySession
  \/ CallCreateMovable
  \/ DoDropHandle

SpecCreate == Init /\ [][NextCreate]_vars

NextRoundTrip ==
  \/ DoAcquirePinned
  \/ DoDestroySession
  \/ RoundTripCreateMovable
  \/ DoObjAcquireSession
  \/ DoUnload
  \/ DoDropHandle

SpecRoundTrip == Init /\ [][NextRoundTrip]_vars

NextSessions ==
  \/ DoAcquireOne
  \/ DoDestroySession
  \/ DoCreateMovable
  \/ DoObjAcquireSession
  \/ DoObjAcquireSessionThrows
  \/ DoUnload

SpecSessions == InitSessions /\ [][NextSessions]_vars

(***************************************************************************)
(* Claims about sessions and movable objects, checked under Spec.          *)
(***************************************************************************)
Minted == {minted[m] : m \in 1 .. Len(minted)}
Targets == Slots \cup {NoInterp}

\* C4: the destruction of a session obtained through acquire_one decrements
\* the counter of the slot acquire() returned for it, once, and no other
\* counter; the destruction of a pinned session leaves every counter as it was.
C4_SessionFreesOnce ==
  [][\A s \in SessionIds :
       DestroySession(s) =>
         IF sessions[s].via = "balanced"
         THEN uses' = [uses EXCEPT ![sessions[s].acquired] = U64Dec(@)]
         ELSE uses' = uses]_vars

\* a balanced and a pinned session have been destroyed, and every slot is idle again
C4_Witness ==
  /\ dtorLog.balanced /\ dtorLog.pinned
  /\ LiveSessions = {}
  /\ \A k \in Slots : uses[k] = U64Zero

\* C5: the ids returned by successive create_movable calls are strictly
\* increasing (so none is returned twice), also when objects were destroyed
\* in between.
C5_IdsIncrease ==
  \A a, b \in 1 .. Len(minted) : a < b => minted[a] < minted[b]

C5_Witness == Len(minted) >= 2 /\ mintedAfterDestroy

\* C6: once the last handle of a movable object is destroyed, no interpreter
\* of the manager holds a cache entry for its id.
C6_NoEntryAfterDestroy ==
  \A id \in Minted : handles[id] = 0 => \A k \in Slots : cache[k][id] = NoValue

\* an object that every interpreter had materialized has been destroyed
C6_Witness ==
  /\ alive /\ dtorEvicted
  /\ \E id \in Minted : handles[id] = 0

\* C7: when the manager is destroyed no interpreter is torn down with a
\* cache entry of a movable object, and no ~ReplicatedObjImpl runs its unload
\* broadcast against the destroyed manager.
C7_UnloadedBeforeTeardown ==
  /\ \A k \in Slots : tornCache[k] = {}
  /\ ~dangling

\* C8: all resolves of one id on one interpreter since the last unload of the
\* id there returned the same live value, the cached one, and the payload was
\* deserialized once.
C8_ResolveOnce ==
  \A k \in Slots, id \in ObjIds :
     hist[k][id].n >= 1 =>
        /\ hist[k][id].des = 1
        /\ hist[k][id].vals = {cache[k][id]}
        /\ cache[k][id] # NoValue

C8_Witness == \E k \in Slots, id \in ObjIds : hist[k][id].n >= 2

\* the id was materialized on interpreter k, was unloaded there, and its handle lives
UnloadedOn(k, id) ==
  alive /\ handles[id] > 0 /\ desCount[k][id] > 0 /\ cache[k][id] = NoValue

\* the step resolves object id on interpreter k
ResolveStep(k, id) ==
  \/ \E s \in SessionIds : sessions[s].interp = k /\ SessionFromMovable(s, id)
  \/ \E t \in PoolThreads, target \in Targets :
        /\ ObjAcquireSession(t, id, target)
        /\ sessions'[NewSessionId].interp = k

\* C9 as stated: an id unloaded on interpreter k never comes back into k's cache.
C9_UnloadedIsTerminal ==
  [][\A k \in Slots, id \in ObjIds :
       UnloadedOn(k, id) => cache'[k][id] = NoValue]_vars

\* C9 as amended: an id enters the cache of interpreter k only by a resolve
\* of a live handle on k, which deserializes the payload once more (so an
\* unloaded id stays out until the next resolve on k); and once the last
\* handle is destroyed the id is in no cache.
C9_UnloadedUntilResolved ==
  [][\A k \in Slots, id \in ObjIds :
       /\ (cache[k][id] = NoValue /\ cache'[k][id] # NoValue) =>
             /\ handles[id] > 0
             /\ ResolveStep(k, id)
             /\ desCount'[k][id] = desCount[k][id] + 1
       /\ (id \in Minted /\ handles'[id] = 0) => cache'[k][id] = NoValue]_vars

\* an unloaded id has been materialized again
C9_Witness ==
  \E k \in Slots, id \in ObjIds : desCount[k][id] >= 2 /\ cache[k][id] # NoValue

\* the interpreters an unload with this target acts on
TargetsOf(target) == IF target = NoInterp THEN Slots ELSE {target}

C12_FailedCreateKeepsCounter ==
  [][\A s \in DOMAIN sessions, v \in CallValues :
       CreateMovable(s, v) =>
          /\ ~sessions[s].manager => err'.kind = "precondition"
          /\ (~sessions[s].manager \/ PickleThrows(v)) =>
                /\ err'.kind # "none"
                /\ next_object_id' = next_object_id
                /\ handles' = handles /\ minted' = minted]_vars

\* after a create_movable that threw the precondition error, and with an
\* object minted earlier, the counter is where that minting left it
C12_Witness ==
  /\ err.kind = "precondition"
  /\ Len(minted) = 1 /\ next_object_id = 1

(***************************************************************************)
(* Claims about the counters and the sessions of a manager, checked under  *)
(* SpecSessions.                                                           *)
(***************************************************************************)

\* the live sessions acquire_one bound to interpreter k
BalancedOn(k) ==
  {s \in LiveSessions : sessions[s].via = "balanced" /\ sessions[s].interp = k}

C20_FailedAcquireReleases ==
  [][\A t \in PoolThreads, id \in ObjIds :
       ObjAcquireSessionThrows(t, id, NoInterp) =>
          /\ uses' = uses
          /\ sessions' = sessions
          /\ err'.kind = "unpickle"]_vars

\* the call that threw had taken its session through the slow path, with
\* every interpreter in use
C20_Witness ==
  /\ err.kind = "unpickle" /\ err.via = "balanced" /\ err.slow
  /\ \A k \in Slots : Cardinality(BalancedOn(k)) >= 1

(***************************************************************************)
(* Claim about concurrent create_movable calls, checked under SpecMint.    *)
(***************************************************************************)

\* C18: the ids handed out by create_movable calls of different threads on
\* sessions of one manager are pairwise different, in every interleaving of
\* the reads and writes of next_object_id_.
C18_ConcurrentIdsDistinct ==
  \A a, b \in 1 .. Len(minted) : a # b => minted[a] # minted[b]

(***************************************************************************)
(* Claims about one acquire() call: C14 is checked under SpecBalancer, C15 *)
(* under SpecSeq.                                                          *)
(***************************************************************************)

\* C14: acquire() never blocks.  A thread inside acquire() can always take
\* its next step, whatever the other threads do; each step is one
\* compare-and-set probe or the one atomic increment; the call returns at
\* the increment or at a successful probe; and it makes at most NSlots probes.
C14_AcquireNeverBlocks ==
  /\ [](\A t \in Threads :
          /\ i[t] \in 0 .. NSlots
          /\ (pc[t] = "idle" => i[t] = 0)
          /\ (pc[t] = "scan" => i[t] >= 1 /\ i[t] < NSlots /\ ENABLED Probe(t))
          /\ (pc[t] = "inc" => i[t] = NSlots /\ ENABLED Increment(t)))
  /\ [][\A t \in Threads :
          /\ Probe(t) => (pc'[t] = "idle" \/ i'[t] = i[t] + 1)
          /\ Increment(t) => pc'[t] = "idle"]_vars

\* a call has returned through the slow path, and another one has made all
\* its probes, while a third thread is inside acquire() and after a free()
C14_Witness ==
  /\ slowRet >= 1 /\ nfree >= 1
  /\ \E t, u \in Threads :
        t # u /\ pc[t] = "inc" /\ i[t] = NSlots /\ pc[u] = "scan"

\* the slots in the order acquire() scans them from cursor c
CyclicOrder(c) == [k \in 1 .. NSlots |-> (c + k - 1) % NSlots]

\* the first slot in that order whose counter is in the set W
FirstOf(u, c, W) ==
  LET k == CHOOSE n \in 1 .. NSlots :
             /\ u[CyclicOrder(c)[n]] \in W
             /\ \A m \in 1 .. n - 1 : u[CyclicOrder(c)[m]] \notin W
  IN CyclicOrder(c)[k]

\* counter a is below counter b
Below(a, b) == \E k \in 1 .. 4 : a[k] < b[k] /\ \A j \in 1 .. k - 1 : a[j] = b[j]

\* the smallest counter
MinCounter(u) ==
  CHOOSE x \in {u[s] : s \in Slots} : \A s \in Slots : ~Below(u[s], x)

\* what C15 says acquire() returns and does to the counters
Stated(u, c) ==
  IF \E s \in Slots : u[s] = U64Zero
  THEN LET idx == FirstOf(u, c, {U64Zero})
       IN [idx |-> idx, uses |-> [u EXCEPT ![idx] = U64One]]
  ELSE LET idx == FirstOf(u, c, {MinCounter(u)})
       IN [idx |-> idx, uses |-> [u EXCEPT ![idx] = U64Inc(@)]]

\* the same, except when every counter is 2^64 - 1
Amended(u, c) ==
  IF \A s \in Slots : u[s] = SIZE_MAX
  THEN [idx |-> 0, uses |-> [u EXCEPT ![0] = U64Zero]]
  ELSE Stated(u, c)

\* the index the acquire() call of this step returned
ReturnedNow ==
  CHOOSE x \in DOMAIN returned' :
     x \notin DOMAIN returned \/ returned'[x] # returned[x]

BothResolve(k) ==
  SearchPath[k].start_sym \in env.symtab /\ SearchPath[k].end_sym \in env.symtab

\* C13: the discovery selects the first entry of the search path whose start
\* and end symbols both resolve, with that entry's isolation flag, and fails
\* only when no entry has both.
C13_FirstResolvingVariant ==
  (env.mkstemp_ok /\ ipc \notin {"new", "tmp", "unused"}) =>
     IF \E k \in DOMAIN SearchPath : BothResolve(k)
     THEN LET first == CHOOSE k \in DOMAIN SearchPath :
                          BothResolve(k) /\ \A j \in 1 .. k - 1 : ~BothResolve(j)
          IN /\ interp.variant = first
             /\ interp.custom_loader_ = SearchPath[first].custom_loader
     ELSE ipc = "failed" /\ interp.variant = 0

\* the part of the trace the constructor made, and the part the destructor made
IsCtorEvent(e) == e[1] \in {"fwrite", "dlopen", "unlink", "deploy_set_self", "new_interpreter_impl"}
CtorTrace == SelectSeq(trace, IsCtorEvent)
DtorTrace == SelectSeq(trace, LAMBDA e : ~IsCtorEvent(e))
Names(sq) == [n \in DOMAIN sq |-> sq[n][1]]
Count(name) == Cardinality({n \in DOMAIN trace : trace[n][1] = name})
Pos(name) == CHOOSE n \in DOMAIN trace : trace[n][1] = name

\* C16: the destructor releases pImpl_ first, then calls the flush hook
\* once, only for an image loaded with custom_loader_, and closes the image
\* last; the image is never closed (or handed on) while pImpl_ is held; and
\* the destructor of an Interpreter with no handle does nothing.
C16_TeardownOrder ==
  /\ interp.pImpl_ => interp.mapped
  /\ Count("dlclose") >= 1 =>
        /\ Count("pImpl_.reset") = 1 /\ Pos("pImpl_.reset") < Pos("dlclose")
        /\ Count("dlclose") = 1 /\ Pos("dlclose") = Len(trace)
  /\ Count("deploy_flush_python_libs") >= 1 =>
        /\ interp.custom_loader_ /\ Count("deploy_flush_python_libs") = 1
        /\ Pos("pImpl_.reset") < Pos("deploy_flush_python_libs")
        /\ Count("dlclose") >= 1 => Pos("deploy_flush_python_libs") < Pos("dlclose")
  /\ (ipc = "destroyed" /\ interp.handle_ # 0) =>
        Names(DtorTrace) =
           IF interp.custom_loader_ /\ Dlsym(env.exports, "deploy_flush_python_libs")
           THEN <<"pImpl_.reset", "deploy_flush_python_libs", "dlclose">>
           ELSE <<"pImpl_.reset", "dlclose">>
  /\ (ipc = "destroyed" /\ interp.handle_ = 0) => DtorTrace = << >>

\* an Interpreter loaded with custom_loader_ has been torn down
C16_Witness ==
  /\ ipc = "destroyed" /\ interp.custom_loader_ /\ interp.handle_ # 0
  /\ Count("deploy_flush_python_libs") = 1 /\ ~interp.mapped

\* C17: a construction that succeeded has written the image to the
\* temporary file, loaded the file, unlinked it, called deploy_set_self once
\* with the handle of the image if and only if the selected entry has its
\* custom_loader flag set, and then called new_interpreter_impl once, in
\* this order; deploy_set_self is never called when the flag is unset.
C17_ConstructionOrder ==
  /\ ipc \in {"constructed", "reset", "flushed", "crashed", "destroyed"} =>
        /\ interp.variant \in DOMAIN SearchPath
        /\ interp.custom_loader_ = SearchPath[interp.variant].custom_loader
        /\ CtorTrace =
             IF SearchPath[interp.variant].custom_loader
             THEN << Event("fwrite", interp.variant), Event("dlopen", "RTLD_DEEPBIND"),
                     Event("unlink", "library"), Event("deploy_set_self", ImageHandle),
                     Event("new_interpreter_impl", "pImpl") >>
             ELSE << Event("fwrite", interp.variant), Event("dlopen", "RTLD_LOCAL"),
                     Event("unlink", "library"), Event("new_interpreter_impl", "pImpl") >>
  /\ Count("deploy_set_self") >= 1 =>
        interp.variant \in DOMAIN SearchPath /\ SearchPath[interp.variant].custom_loader

\* an Interpreter has been constructed from the entry with the custom_loader flag
C17_Witness ==
  /\ ipc = "constructed" /\ interp.custom_loader_ /\ interp.pImpl_
  /\ Count("deploy_set_self") = 1

====
